---- MODULE Spec2Model ----
(***************************************************************************)
(* Model of the camera capture application in src/src/main.rs: the         *)
(* CameraApp structure, its methods and the eframe update handler.         *)
(*                                                                         *)
(* Three specifications are given:                                         *)
(*   Spec     the program as it runs: every step is one call of the        *)
(*            update handler (frame update followed by at most one click)  *)
(*            or the Drop of the application;                              *)
(*   SpecApi  the methods of CameraApp called in any order;                *)
(*   SpecConc update_frame, start_recording and stop_recording on          *)
(*            separate threads, one step per lock operation or atomic      *)
(*            access.                                                      *)
(***************************************************************************)
EXTENDS Integers, Sequences, FiniteSets, TLC

VARIABLES camera, video_writer, current_frame, capture_mode, camera_position,
          is_recording, camera_index, frame_width, frame_height,
          world, last_op, dropped,
          pc, lock, locals

appVars == <<camera, video_writer, current_frame, capture_mode,
             camera_position, is_recording, camera_index, frame_width,
             frame_height>>

concVars == <<pc, lock, locals>>

vars == <<camera, video_writer, current_frame, capture_mode, camera_position,
          is_recording, camera_index, frame_width, frame_height,
          world, last_op, dropped, pc, lock, locals>>

-----------------------------------------------------------------------------
(* Bounds of the model. *)

\* timestamps (seconds of Local::now()) range over 0..MaxClock
MaxClock == 1
\* at most MaxWriters VideoWriters are opened in one run
MaxWriters == 2
\* at most MaxWritten frames are written to one writer
MaxWritten == 1
\* frame contents are drawn from 1..MaxFrameId
MaxFrameId == 2

-----------------------------------------------------------------------------
(* Values. *)

\* Option<T>: None, or Some(x) holding x
None == <<>>
Some(x) == <<x>>
unwrap(o) == o[1]
Fail == -1

\* the resolution requested by Default
DefaultWidth == 640
DefaultHeight == 480

\* fallback frame rate and upper limit of the accepted frame rate
DefaultFps == 30
MaxFps == 120

\* what a device may answer to get(CAP_PROP_FRAME_WIDTH / HEIGHT)
Widths == {320, 640}
Heights == {200, 480}

\* what a device may answer to get(CAP_PROP_FPS): Fail is an Err
FpsReports == {Fail, 0, 120, 200}

\* outcomes of VideoCapture::new / is_opened and VideoWriter::new / is_opened
OpenOutcomes == {"err", "closed", "ok"}

\* a device: how the open goes and, when it opens, what it reports after the
\* configure request
Devices ==
    {[open |-> "ok", width |-> w, height |-> h] :
        w \in Widths \cup {Fail}, h \in Heights \cup {Fail}}
    \cup {[open |-> o, width |-> Fail, height |-> Fail] :
             o \in {"err", "closed"}}

\* results of cam.read(&mut frame): a failure, or a Mat of cols x rows
\* whose converted data has nbytes bytes (3 bytes per pixel); id names the
\* picture
NoMat == [cols |-> 0, rows |-> 0, nbytes |-> 0, id |-> 0]
Mats == {NoMat, [cols |-> 1, rows |-> 1, nbytes |-> 6, id |-> 0]}
          \cup {[cols |-> 1, rows |-> 1, nbytes |-> 3, id |-> i] :
                   i \in 1..MaxFrameId}
Reads == {[ok |-> FALSE, mat |-> NoMat]}
           \cup {[ok |-> TRUE, mat |-> m] : m \in Mats}

\* outcomes of imgcodecs::imwrite: Err, Ok(false), Ok(true)
WriteOutcomes == {"err", "false", "true"}

\* outcomes of the conversion chain cvt_color / data_bytes()
ConvOutcomes == {"cvt_err", "ok"}

Modes == {"Photo", "Video"}
Positions == {"Front", "Rear"}

\* lines written to stdout (println!) and to stderr (eprintln!)
StdoutMsgs == {"camera initialised", "photo saved", "recording started",
               "recording stopped"}
StderrMsgs == {"camera not opened", "camera init failed",
               "photo save failed", "writer not opened",
               "writer create failed"}

-----------------------------------------------------------------------------
(* The application state as one record, so that the methods compose as    *)
(* they call each other.  world holds what the methods do outside the     *)
(* structure.  Of the handler that ran last it holds the lines printed    *)
(* (log), the files created (created) and the exchange with a device      *)
(* opened (init), the frame rate a device reported (fps) and what the     *)
(* preview showed (shown); of the whole                                   *)
(* run it holds the number of writers opened, the writers dropped and how *)
(* the last device open went.                                             *)

Self == [camera |-> camera, video_writer |-> video_writer,
         current_frame |-> current_frame, capture_mode |-> capture_mode,
         camera_position |-> camera_position, is_recording |-> is_recording,
         camera_index |-> camera_index, frame_width |-> frame_width,
         frame_height |-> frame_height, world |-> world]

Becomes(s) ==
    /\ camera' = s.camera
    /\ video_writer' = s.video_writer
    /\ current_frame' = s.current_frame
    /\ capture_mode' = s.capture_mode
    /\ camera_position' = s.camera_position
    /\ is_recording' = s.is_recording
    /\ camera_index' = s.camera_index
    /\ frame_width' = s.frame_width
    /\ frame_height' = s.frame_height
    /\ world' = s.world

\* println! / eprintln!
Say(s, msg) == [s EXCEPT !.world.log = Append(@, msg)]

\* the state of the world before the application is built
World0 == [created |-> {}, log |-> <<>>, opened |-> 0,
           closed |-> <<>>, last_open |-> "none", init |-> None,
           fps |-> None, shown |-> "none"]

\* impl Default for CameraApp
Default == [camera |-> None, video_writer |-> None, current_frame |-> None,
            capture_mode |-> "Photo", camera_position |-> "Rear",
            is_recording |-> FALSE, camera_index |-> 0,
            frame_width |-> DefaultWidth, frame_height |-> DefaultHeight,
            world |-> World0]

\* init_camera that always requests the resolution of Default
init_camera_default_request(s, dev) ==
    LET s0 == [s EXCEPT !.world.last_open = dev.open] IN
    IF dev.open = "ok"
    THEN LET cam == [index |-> s.camera_index]
             s1 == [s0 EXCEPT !.world.init =
                        Some([requested |-> <<DefaultWidth, DefaultHeight>>,
                              width |-> dev.width, height |-> dev.height])]
             s2 == [s1 EXCEPT !.frame_width =
                                   IF dev.width # Fail THEN dev.width
                                   ELSE DefaultWidth]
             s3 == [s2 EXCEPT !.frame_height =
                                   IF dev.height # Fail THEN dev.height
                                   ELSE DefaultHeight]
             s4 == [s3 EXCEPT !.camera = Some(cam)]
         IN  Say(s4, "camera initialised")
    ELSE IF dev.open = "closed"
    THEN Say(s0, "camera not opened")
    ELSE Say(s0, "camera init failed")

\* CameraApp::init_camera; dev is the device found at self.camera_index.
\* world.last_open keeps how the open went, world.init the exchange with
\* the device: the resolution requested of it (cam.set) and what it
\* answered afterwards (cam.get).
init_camera(s, dev) ==
    LET s0 == [s EXCEPT !.world.last_open = dev.open] IN
    IF dev.open = "ok"
    THEN LET cam == [index |-> s.camera_index]
             s1 == [s0 EXCEPT !.world.init =
                        Some([requested |-> <<s.frame_width, s.frame_height>>,
                              width |-> dev.width, height |-> dev.height])]
             s2 == [s1 EXCEPT !.frame_width =
                                   IF dev.width # Fail THEN dev.width ELSE @]
             s3 == [s2 EXCEPT !.frame_height =
                                   IF dev.height # Fail THEN dev.height ELSE @]
             s4 == [s3 EXCEPT !.camera = Some(cam)]
         IN  Say(s4, "camera initialised")
    ELSE IF dev.open = "closed"
    THEN Say(s0, "camera not opened")
    ELSE Say(s0, "camera init failed")

\* CameraApp::new
new(dev) == init_camera(Default, dev)

\* stop_recording that drops the writer and leaves the flag set
stop_recording_keeps_flag(s) ==
    IF s.video_writer # None
    THEN Say([s EXCEPT !.video_writer = None,
                       !.world.closed = Append(@, unwrap(s.video_writer).id)],
             "recording stopped")
    ELSE s

\* CameraApp::stop_recording
stop_recording(s) ==
    IF s.video_writer # None
    THEN LET s1 == [s EXCEPT !.video_writer = None,
                             !.world.closed = Append(@, unwrap(s.video_writer).id)]
             s2 == [s1 EXCEPT !.is_recording = FALSE]
         IN  Say(s2, "recording stopped")
    ELSE s

\* switch_camera that does not stop a recording in progress
switch_camera_keeps_recording(s, dev) ==
    LET s2 == [s EXCEPT !.camera = None]
        s3 == [s2 EXCEPT !.camera_index = IF @ = 0 THEN 1 ELSE 0]
    IN  init_camera(s3, dev)

\* switch_camera that lowers the flag and leaves the writer where it is
switch_camera_keeps_writer(s, dev) ==
    LET s1 == [s EXCEPT !.is_recording = FALSE]
        s2 == [s1 EXCEPT !.camera = None]
        s3 == [s2 EXCEPT !.camera_index = IF @ = 0 THEN 1 ELSE 0]
    IN  init_camera(s3, dev)

\* switch_camera that does not release the camera before the new open
switch_camera_keeps_camera(s, dev) ==
    LET s1 == IF s.is_recording THEN stop_recording(s) ELSE s
        s3 == [s1 EXCEPT !.camera_index = IF @ = 0 THEN 1 ELSE 0]
    IN  init_camera(s3, dev)

\* CameraApp::switch_camera
switch_camera(s, dev) ==
    LET s1 == IF s.is_recording THEN stop_recording(s) ELSE s
        s2 == [s1 EXCEPT !.camera = None]
        s3 == [s2 EXCEPT !.camera_index = IF @ = 0 THEN 1 ELSE 0]
    IN  init_camera(s3, dev)

\* Mat::empty
empty(mat) == mat.cols * mat.rows = 0

\* cam.read(&mut frame).unwrap_or(false) && !frame.empty()
good(rd) == rd.ok /\ ~empty(rd.mat)

\* the file name "<kind>_<timestamp>.<ext>" under output_dir
filename(kind, t) == <<kind, t>>

\* CameraApp::capture_photo; rd is what cam.read returns, t the time read
\* from Local::now(), enc what imwrite returns
capture_photo(s, rd, t, enc) ==
    IF s.camera # None
    THEN IF good(rd)
         THEN IF enc = "err"
              THEN Say(s, "photo save failed")
              ELSE LET s1 == IF enc = "true"
                             THEN [s EXCEPT !.world.created =
                                        @ \cup {filename("photo", t)}]
                             ELSE s
                   IN  Say(s1, "photo saved")
         ELSE s
    ELSE s

\* a frame rate that accepts only rates below the limit
fps_of_exclusive(reported) ==
    LET fps == IF reported = Fail THEN DefaultFps ELSE reported
    IN  IF fps > 0 /\ fps < MaxFps THEN fps ELSE DefaultFps

\* the frame rate start_recording passes to the writer
fps_of(reported) ==
    LET fps == IF reported = Fail THEN DefaultFps ELSE reported
    IN  IF fps > 0 /\ fps <= MaxFps THEN fps ELSE DefaultFps

\* start_recording that raises the flag before it knows the writer opened
start_recording_flag_first(s, t, fpsq, wr) ==
    IF s.camera # None
    THEN LET s1 == [s EXCEPT !.world.fps = Some(fpsq),
                             !.is_recording = TRUE]
             writer == [id |-> s.world.opened + 1,
                        file |-> filename("video", t),
                        fps |-> fps_of(fpsq),
                        size |-> <<s.frame_width, s.frame_height>>,
                        frames |-> 0,
                        cam |-> unwrap(s.camera),
                        src |-> {}] IN
         IF wr = "ok"
         THEN LET s2 == [s1 EXCEPT !.world.opened = @ + 1,
                                   !.world.created = @ \cup {writer.file},
                                   !.world.closed =
                                       IF s.video_writer # None
                                       THEN Append(@, unwrap(s.video_writer).id)
                                       ELSE @]
                  s3 == [s2 EXCEPT !.video_writer = Some(writer)]
              IN  Say(s3, "recording started")
         ELSE IF wr = "closed"
         THEN Say(s1, "writer not opened")
         ELSE Say(s1, "writer create failed")
    ELSE s

\* start_recording that keeps a writer already stored
start_recording_keeps_writer(s, t, fpsq, wr) ==
    IF s.camera # None
    THEN LET writer == [id |-> s.world.opened + 1,
                        file |-> filename("video", t),
                        fps |-> fps_of(fpsq),
                        size |-> <<s.frame_width, s.frame_height>>,
                        frames |-> 0,
                        cam |-> unwrap(s.camera),
                        src |-> {}] IN
         IF wr = "ok"
         THEN LET s2 == [s EXCEPT !.world.opened = @ + 1,
                                  !.world.created = @ \cup {writer.file},
                                  !.world.closed =
                                      IF s.video_writer # None
                                      THEN Append(@, writer.id)
                                      ELSE @]
                  s3 == IF s.video_writer = None
                        THEN [s2 EXCEPT !.video_writer = Some(writer)]
                        ELSE s2
                  s4 == [s3 EXCEPT !.is_recording = TRUE]
              IN  Say(s4, "recording started")
         ELSE IF wr = "closed"
         THEN Say(s, "writer not opened")
         ELSE Say(s, "writer create failed")
    ELSE s

\* CameraApp::start_recording; t is the time read from Local::now(), fpsq
\* what cam.get(CAP_PROP_FPS) returns (kept in world.fps), wr how
\* VideoWriter::new goes.  With the writer go the camera handle locked
\* while it is created (cam) and the handles its frames were read from
\* (src).
start_recording(s, t, fpsq, wr) ==
    IF s.camera # None
    THEN LET s1 == [s EXCEPT !.world.fps = Some(fpsq)]
             writer == [id |-> s.world.opened + 1,
                        file |-> filename("video", t),
                        fps |-> fps_of(fpsq),
                        size |-> <<s.frame_width, s.frame_height>>,
                        frames |-> 0,
                        cam |-> unwrap(s.camera),
                        src |-> {}] IN
         IF wr = "ok"
         THEN LET s2 == [s1 EXCEPT !.world.opened = @ + 1,
                                   !.world.created = @ \cup {writer.file},
                                   !.world.closed =
                                       IF s.video_writer # None
                                       THEN Append(@, unwrap(s.video_writer).id)
                                       ELSE @]
                  s3 == [s2 EXCEPT !.video_writer = Some(writer)]
                  s4 == [s3 EXCEPT !.is_recording = TRUE]
              IN  Say(s4, "recording started")
         ELSE IF wr = "closed"
         THEN Say(s1, "writer not opened")
         ELSE Say(s1, "writer create failed")
    ELSE s

\* the egui::ColorImage built from a converted Mat
color_image(mat) == [size |-> <<mat.cols, mat.rows>>, id |-> mat.id]

\* data.chunks(3).collect().len()
pixels_len(mat) == (mat.nbytes + 2) \div 3

\* update_frame that opens the device again when there is no camera handle
update_frame_reopens(s, rd, wok, conv) ==
    IF s.camera # None
    THEN IF good(rd)
         THEN LET s1 == IF s.is_recording /\ s.video_writer # None /\ wok
                        THEN [s EXCEPT !.video_writer[1].frames = @ + 1,
                                       !.video_writer[1].src =
                                           @ \cup {unwrap(s.camera)}]
                        ELSE s
              IN  IF conv = "ok"
                     /\ pixels_len(rd.mat) = rd.mat.cols * rd.mat.rows
                  THEN [s1 EXCEPT !.current_frame = Some(color_image(rd.mat))]
                  ELSE s1
         ELSE s
    ELSE [s EXCEPT !.camera = Some([index |-> s.camera_index])]

\* update_frame that clears the stored frame when the read delivers none
update_frame_clears_frame(s, rd, wok, conv) ==
    IF s.camera # None
    THEN IF good(rd)
         THEN LET s1 == IF s.is_recording /\ s.video_writer # None /\ wok
                        THEN [s EXCEPT !.video_writer[1].frames = @ + 1,
                                       !.video_writer[1].src =
                                           @ \cup {unwrap(s.camera)}]
                        ELSE s
              IN  IF conv = "ok"
                     /\ pixels_len(rd.mat) = rd.mat.cols * rd.mat.rows
                  THEN [s1 EXCEPT !.current_frame = Some(color_image(rd.mat))]
                  ELSE s1
         ELSE [s EXCEPT !.current_frame = None]
    ELSE s

\* update_frame without the check of the pixel count
update_frame_unchecked(s, rd, wok, conv) ==
    IF s.camera # None
    THEN IF good(rd)
         THEN LET s1 == IF s.is_recording /\ s.video_writer # None /\ wok
                        THEN [s EXCEPT !.video_writer[1].frames = @ + 1,
                                       !.video_writer[1].src =
                                           @ \cup {unwrap(s.camera)}]
                        ELSE s
              IN  IF conv = "ok"
                  THEN [s1 EXCEPT !.current_frame = Some(color_image(rd.mat))]
                  ELSE s1
         ELSE s
    ELSE s

\* CameraApp::update_frame; rd is what cam.read returns, wok whether
\* writer.write succeeds, conv how the conversion chain goes
update_frame(s, rd, wok, conv) ==
    IF s.camera # None
    THEN IF good(rd)
         THEN LET s1 == IF s.is_recording /\ s.video_writer # None /\ wok
                        THEN [s EXCEPT !.video_writer[1].frames = @ + 1,
                                       !.video_writer[1].src =
                                           @ \cup {unwrap(s.camera)}]
                        ELSE s
              IN  IF conv = "ok"
                     /\ pixels_len(rd.mat) = rd.mat.cols * rd.mat.rows
                  THEN [s1 EXCEPT !.current_frame = Some(color_image(rd.mat))]
                  ELSE s1
         ELSE s
    ELSE s

\* a Drop that leaves a recording in progress as it is
drop_without_stop(s) == s

\* impl Drop for CameraApp
drop(s) == IF s.is_recording THEN stop_recording(s) ELSE s

-----------------------------------------------------------------------------
(* The preview and the click handlers of CameraApp::update. *)

\* the preview: the stored frame as an image, or else the label
render(s) ==
    [s EXCEPT !.world.shown =
        IF s.current_frame # None THEN "image" ELSE "placeholder"]

\* a "Photo" mode toggle that does not stop a recording in progress
click_photo_mode_keeps_recording(s) == [s EXCEPT !.capture_mode = "Photo"]

\* the "Photo" mode toggle
click_photo_mode(s) ==
    LET s1 == IF s.is_recording THEN stop_recording(s) ELSE s
    IN  [s1 EXCEPT !.capture_mode = "Photo"]

\* the "Video" mode toggle
click_video_mode(s) == [s EXCEPT !.capture_mode = "Video"]

\* a "Rear" position toggle that switches whatever the position is
click_rear_always(s, dev) ==
    switch_camera([s EXCEPT !.camera_position = "Rear"], dev)

\* the "Rear" position toggle
click_rear(s, dev) ==
    IF s.camera_position # "Rear"
    THEN switch_camera([s EXCEPT !.camera_position = "Rear"], dev)
    ELSE s

\* a "Front" position toggle that switches whatever the current position
click_front_always(s, dev) ==
    switch_camera([s EXCEPT !.camera_position = "Front"], dev)

\* the "Front" position toggle
click_front(s, dev) ==
    IF s.camera_position # "Front"
    THEN switch_camera([s EXCEPT !.camera_position = "Front"], dev)
    ELSE s

\* the method the button of the action row calls
action_row(s) ==
    IF s.capture_mode = "Photo" THEN "capture_photo"
    ELSE IF ~s.is_recording THEN "start_recording"
    ELSE "stop_recording"

\* a click on the button of the action row; in holds the inputs of the
\* method called
click_action(s, in) ==
    CASE action_row(s) = "capture_photo" ->
            capture_photo(s, in.rd, in.t, in.enc)
      [] action_row(s) = "start_recording" ->
            start_recording(s, in.t, in.fpsq, in.wr)
      [] action_row(s) = "stop_recording" -> stop_recording(s)

-----------------------------------------------------------------------------
(* Inputs the environment may supply in the current state. *)

\* the inputs of one update_frame: the read and, when the read delivers a
\* frame, the outcome of the conversion chain
ticks ==
    {[rd |-> r, conv |-> "skipped"] : r \in {x \in Reads : ~good(x)}}
    \cup {[rd |-> r, conv |-> c] :
             r \in {x \in Reads : good(x)}, c \in ConvOutcomes}

\* writer.write is called only on a delivered frame while recording, and
\* may succeed only while the writer takes more frames
writes(s, i) ==
    IF /\ s.camera # None /\ good(i.rd) /\ s.is_recording
       /\ s.video_writer # None
       /\ unwrap(s.video_writer).frames < MaxWritten
    THEN BOOLEAN ELSE {FALSE}

\* Local::now() is the wall clock of the local time zone
times == 0 .. MaxClock

\* VideoWriter::new may succeed only while writers are left
writers(s) ==
    IF s.world.opened < MaxWriters THEN OpenOutcomes ELSE {"err", "closed"}

\* the inputs of one capture_photo: the read and, when the read delivers a
\* frame, the time and what imwrite returns; capture_photo does not look
\* into the frame, so one delivered frame stands for all
photos ==
    {[rd |-> r, t |-> 0, enc |-> "skipped"] : r \in {x \in Reads : ~good(x)}}
    \cup {[rd |-> [ok |-> TRUE,
                   mat |-> [cols |-> 1, rows |-> 1, nbytes |-> 3, id |-> 1]],
            t |-> t, enc |-> e] : t \in times, e \in WriteOutcomes}

\* the inputs of one start_recording: how VideoWriter::new goes and, when
\* it opens a writer, the time and the frame rate that writer gets
recordings(s) ==
    {[t |-> 0, fpsq |-> Fail, wr |-> w] : w \in writers(s) \ {"ok"}}
    \cup {[t |-> t, fpsq |-> f, wr |-> w] :
             t \in times, f \in FpsReports, w \in writers(s) \cap {"ok"}}

\* the inputs of a click on the action row
action_inputs(s) ==
    CASE action_row(s) = "capture_photo" -> photos
      [] action_row(s) = "start_recording" -> recordings(s)
      [] action_row(s) = "stop_recording" -> {[t |-> 0]}

\* the state a handler starts from: nothing printed, nothing exchanged
\* with a device and no file created yet
fresh(s) ==
    [s EXCEPT !.world.log = <<>>, !.world.init = None, !.world.created = {},
              !.world.fps = None, !.world.shown = "none"]

\* whether an update_frame with inputs i produces a frame in state s: there
\* is a camera, the read delivers a frame, the conversion succeeds and the
\* pixel count is width x height
produces_frame(s, i) ==
    /\ s.camera # None
    /\ i.rd.ok
    /\ i.rd.mat.cols > 0 /\ i.rd.mat.rows > 0
    /\ i.conv = "ok"
    /\ i.rd.mat.nbytes = 3 * i.rd.mat.cols * i.rd.mat.rows

\* how the update_frame of a handler went
tick_of(s, i) == IF produces_frame(s, i) THEN "frame" ELSE "no_frame"

\* the record kept of the last handler: which one ran, which method it
\* called directly, how the update_frame it began with went ("none" when
\* the handler runs no update_frame), and whether the recording flag was
\* set when it began
Op(handler, called, tick) ==
    [handler |-> handler, called |-> called, tick |-> tick,
     rec |-> is_recording]

\* the threads of SpecConc, each running one method again and again
Threads == {"tick", "start", "stop", "switch", "photo"}

\* no thread inside a method, no Mutex held, no local set
idle == [t \in Threads |-> "idle"]
unlocked == [l \in {"camera", "video_writer", "current_frame"} |-> "free"]
nolocals == [flag |-> FALSE, frame |-> None, writer |-> None]

Sequential == pc = idle /\ lock = unlocked /\ locals = nolocals

InitFrom(s) ==
    /\ camera = s.camera
    /\ video_writer = s.video_writer
    /\ current_frame = s.current_frame
    /\ capture_mode = s.capture_mode
    /\ camera_position = s.camera_position
    /\ is_recording = s.is_recording
    /\ camera_index = s.camera_index
    /\ frame_width = s.frame_width
    /\ frame_height = s.frame_height
    /\ world = s.world

\* the state after CameraApp::new
Init ==
    /\ \E dev \in Devices : InitFrom(new(dev))
    /\ last_op = Op("new", "init_camera", "none")
    /\ dropped = FALSE
    /\ Sequential

-----------------------------------------------------------------------------
(* Spec: the steps of the running program.  Each call of update runs      *)
(* update_frame and then the handler of the widget clicked, if any.       *)

UpdateNoClick ==
    /\ ~dropped
    /\ \E i \in ticks : \E wok \in writes(Self, i) :
         /\ Becomes(render(update_frame(fresh(Self), i.rd, wok, i.conv)))
         /\ last_op' = Op("update", "none", tick_of(Self, i))
    /\ UNCHANGED <<dropped, concVars>>

UpdatePhotoMode ==
    /\ ~dropped
    /\ \E i \in ticks : \E wok \in writes(Self, i) :
         LET s1 == render(update_frame(fresh(Self), i.rd, wok, i.conv)) IN
         /\ Becomes(click_photo_mode(s1))
         /\ last_op' = Op("photo_mode",
                          IF s1.is_recording THEN "stop_recording" ELSE "none",
                          tick_of(Self, i))
    /\ UNCHANGED <<dropped, concVars>>

UpdateVideoMode ==
    /\ ~dropped
    /\ \E i \in ticks : \E wok \in writes(Self, i) :
         LET s1 == render(update_frame(fresh(Self), i.rd, wok, i.conv)) IN
         /\ Becomes(click_video_mode(s1))
         /\ last_op' = Op("video_mode", "none", tick_of(Self, i))
    /\ UNCHANGED <<dropped, concVars>>

UpdateRear ==
    /\ ~dropped
    /\ \E i \in ticks, dev \in Devices : \E wok \in writes(Self, i) :
         LET s1 == render(update_frame(fresh(Self), i.rd, wok, i.conv)) IN
         /\ Becomes(click_rear(s1, dev))
         /\ last_op' = Op("rear",
                          IF s1.camera_position # "Rear"
                          THEN "switch_camera" ELSE "none", tick_of(Self, i))
    /\ UNCHANGED <<dropped, concVars>>

UpdateFront ==
    /\ ~dropped
    /\ \E i \in ticks, dev \in Devices : \E wok \in writes(Self, i) :
         LET s1 == render(update_frame(fresh(Self), i.rd, wok, i.conv)) IN
         /\ Becomes(click_front(s1, dev))
         /\ last_op' = Op("front",
                          IF s1.camera_position # "Front"
                          THEN "switch_camera" ELSE "none", tick_of(Self, i))
    /\ UNCHANGED <<dropped, concVars>>

UpdateAction ==
    /\ ~dropped
    /\ \E i \in ticks : \E wok \in writes(Self, i) :
         LET s1 == render(update_frame(fresh(Self), i.rd, wok, i.conv)) IN
         \E in \in action_inputs(s1) :
              /\ Becomes(click_action(s1, in))
              /\ last_op' = Op("action", action_row(s1), tick_of(Self, i))
    /\ UNCHANGED <<dropped, concVars>>

\* the application is dropped when the window closes
Drop ==
    /\ ~dropped
    /\ Becomes(drop(fresh(Self)))
    /\ last_op' = Op("drop",
                     IF is_recording THEN "stop_recording" ELSE "none", "none")
    /\ dropped' = TRUE
    /\ UNCHANGED concVars

Next ==
    \/ UpdateNoClick
    \/ UpdatePhotoMode
    \/ UpdateVideoMode
    \/ UpdateRear
    \/ UpdateFront
    \/ UpdateAction
    \/ Drop

Spec == Init /\ [][Next]_vars

-----------------------------------------------------------------------------
(* SpecApi: the methods of CameraApp and the toggles of the window called *)
(* in any order, one call per step.                                       *)

ApiUpdateFrame ==
    /\ ~dropped
    /\ \E i \in ticks : \E wok \in writes(Self, i) :
         /\ Becomes(update_frame(fresh(Self), i.rd, wok, i.conv))
         /\ last_op' = Op("update_frame", "none", tick_of(Self, i))
    /\ UNCHANGED <<dropped, concVars>>

ApiPhotoMode ==
    /\ ~dropped
    /\ Becomes(click_photo_mode(fresh(Self)))
    /\ last_op' = Op("photo_mode",
                     IF is_recording THEN "stop_recording" ELSE "none",
                     "none")
    /\ UNCHANGED <<dropped, concVars>>

ApiVideoMode ==
    /\ ~dropped
    /\ Becomes(click_video_mode(fresh(Self)))
    /\ last_op' = Op("video_mode", "none", "none")
    /\ UNCHANGED <<dropped, concVars>>

ApiRear ==
    /\ ~dropped
    /\ \E dev \in Devices : Becomes(click_rear(fresh(Self), dev))
    /\ last_op' = Op("rear",
                     IF camera_position # "Rear"
                     THEN "switch_camera" ELSE "none", "none")
    /\ UNCHANGED <<dropped, concVars>>

ApiFront ==
    /\ ~dropped
    /\ \E dev \in Devices : Becomes(click_front(fresh(Self), dev))
    /\ last_op' = Op("front",
                     IF camera_position # "Front"
                     THEN "switch_camera" ELSE "none", "none")
    /\ UNCHANGED <<dropped, concVars>>

ApiCapturePhoto ==
    /\ ~dropped
    /\ \E in \in photos :
         Becomes(capture_photo(fresh(Self), in.rd, in.t, in.enc))
    /\ last_op' = Op("capture_photo", "none", "none")
    /\ UNCHANGED <<dropped, concVars>>

ApiStartRecording ==
    /\ ~dropped
    /\ \E in \in recordings(Self) :
         Becomes(start_recording(fresh(Self), in.t, in.fpsq, in.wr))
    /\ last_op' = Op("start_recording", "none", "none")
    /\ UNCHANGED <<dropped, concVars>>

ApiStopRecording ==
    /\ ~dropped
    /\ Becomes(stop_recording(fresh(Self)))
    /\ last_op' = Op("stop_recording", "none", "none")
    /\ UNCHANGED <<dropped, concVars>>

NextApi ==
    \/ ApiUpdateFrame
    \/ ApiPhotoMode
    \/ ApiVideoMode
    \/ ApiRear
    \/ ApiFront
    \/ ApiCapturePhoto
    \/ ApiStartRecording
    \/ ApiStopRecording
    \/ Drop

SpecApi == Init /\ [][NextApi]_vars

-----------------------------------------------------------------------------
(* SpecConc: update_frame, start_recording and stop_recording each on a   *)
(* thread of its own, one step per Mutex operation, atomic access or call *)
(* into the library.  lock[l] is the thread holding Mutex l, or "free".   *)
(* The lines printed are left out of this specification.                  *)

Goto(t, label) == pc' = [pc EXCEPT ![t] = label]
Acquire(l, t) == lock[l] = "free" /\ lock' = [lock EXCEPT ![l] = t]
Release(l) == lock' = [lock EXCEPT ![l] = "free"]

ConcFrame == <<capture_mode, camera_position, camera_index, frame_width,
               frame_height, last_op, dropped, camera>>

\* update_frame: self.camera.lock()
T_LockCamera ==
    /\ pc["tick"] = "idle"
    /\ Acquire("camera", "tick")
    /\ Goto("tick", "read")
    /\ UNCHANGED <<ConcFrame, video_writer, is_recording, current_frame,
                   world, locals>>

\* update_frame: cam_lock.as_mut() and cam.read(&mut frame)
T_ReadOf(inputs) ==
    /\ pc["tick"] = "read"
    /\ IF camera = None
       THEN /\ Release("camera") /\ Goto("tick", "idle")
            /\ UNCHANGED locals
       ELSE \E i \in inputs :
              IF good(i.rd)
              THEN /\ locals' = [locals EXCEPT !.frame = Some(i)]
                   /\ Goto("tick", "load")
                   /\ UNCHANGED lock
              ELSE /\ Release("camera") /\ Goto("tick", "idle")
                   /\ UNCHANGED locals
    /\ UNCHANGED <<ConcFrame, video_writer, is_recording, current_frame,
                   world>>

\* update_frame reading any of the frames
T_Read == T_ReadOf(ticks)

\* update_frame: self.is_recording.load(Ordering::Relaxed)
T_Load ==
    /\ pc["tick"] = "load"
    /\ locals' = [locals EXCEPT !.flag = is_recording]
    /\ Goto("tick", IF is_recording THEN "lock_writer" ELSE "convert")
    /\ UNCHANGED <<ConcFrame, video_writer, is_recording, current_frame,
                   world, lock>>

\* update_frame: self.video_writer.lock()
T_LockWriter ==
    /\ pc["tick"] = "lock_writer"
    /\ Acquire("video_writer", "tick")
    /\ Goto("tick", "write")
    /\ UNCHANGED <<ConcFrame, video_writer, is_recording, current_frame,
                   world, locals>>

\* update_frame: writer_lock.as_mut(), writer.write(&frame), and the end of
\* the scope of writer_lock
T_Write ==
    /\ pc["tick"] = "write"
    /\ \E wok \in writes(Self, unwrap(locals.frame)) :
         video_writer' = IF video_writer # None /\ wok
                         THEN [video_writer EXCEPT ![1].frames = @ + 1,
                                                   ![1].src =
                                                       @ \cup {unwrap(camera)}]
                         ELSE video_writer
    /\ Release("video_writer")
    /\ Goto("tick", "convert")
    /\ UNCHANGED <<ConcFrame, is_recording, current_frame, world, locals>>

\* update_frame: the conversion and the check of the pixel count
T_Convert ==
    /\ pc["tick"] = "convert"
    /\ LET i == unwrap(locals.frame) IN
       IF i.conv = "ok" /\ pixels_len(i.rd.mat) = i.rd.mat.cols * i.rd.mat.rows
       THEN /\ Goto("tick", "lock_frame")
            /\ UNCHANGED <<lock, locals>>
       ELSE /\ Release("camera") /\ Goto("tick", "idle")
            /\ locals' = [locals EXCEPT !.frame = None]
    /\ UNCHANGED <<ConcFrame, video_writer, is_recording, current_frame,
                   world>>

\* update_frame: self.current_frame.lock()
T_LockFrame ==
    /\ pc["tick"] = "lock_frame"
    /\ Acquire("current_frame", "tick")
    /\ Goto("tick", "store")
    /\ UNCHANGED <<ConcFrame, video_writer, is_recording, current_frame,
                   world, locals>>

\* update_frame: *frame_lock = Some(color_image) and the end of all scopes
T_Store ==
    /\ pc["tick"] = "store"
    /\ current_frame' = Some(color_image(unwrap(locals.frame).rd.mat))
    /\ lock' = [lock EXCEPT !["current_frame"] = "free", !["camera"] = "free"]
    /\ locals' = [locals EXCEPT !.frame = None]
    /\ Goto("tick", "idle")
    /\ UNCHANGED <<ConcFrame, video_writer, is_recording, world>>

\* start_recording: self.camera.lock()
S_LockCamera ==
    /\ pc["start"] = "idle"
    /\ Acquire("camera", "start")
    /\ Goto("start", "open")
    /\ UNCHANGED <<ConcFrame, video_writer, is_recording, current_frame,
                   world, locals>>

\* start_recording that raises the flag as soon as the writer is open
S_Open_sets_flag ==
    /\ pc["start"] = "open"
    /\ IF camera = None
       THEN /\ Release("camera") /\ Goto("start", "idle")
            /\ UNCHANGED <<locals, world, is_recording>>
       ELSE \E in \in recordings(Self) :
              IF in.wr = "ok"
              THEN LET writer == [id |-> world.opened + 1,
                                  file |-> filename("video", in.t),
                                  fps |-> fps_of(in.fpsq),
                                  size |-> <<frame_width, frame_height>>,
                                  frames |-> 0,
                                  cam |-> unwrap(camera),
                                  src |-> {}] IN
                   /\ locals' = [locals EXCEPT !.writer = Some(writer)]
                   /\ world' = [world EXCEPT !.opened = @ + 1,
                                             !.created = @ \cup {writer.file}]
                   /\ is_recording' = TRUE
                   /\ Goto("start", "lock_writer")
                   /\ UNCHANGED lock
              ELSE /\ Release("camera") /\ Goto("start", "idle")
                   /\ UNCHANGED <<locals, world, is_recording>>
    /\ UNCHANGED <<ConcFrame, video_writer, current_frame>>

\* start_recording: cam_lock.as_ref(), cam.get(CAP_PROP_FPS),
\* VideoWriter::new and writer.is_opened()
S_OpenOf(inputs) ==
    /\ pc["start"] = "open"
    /\ IF camera = None
       THEN /\ Release("camera") /\ Goto("start", "idle")
            /\ UNCHANGED <<locals, world>>
       ELSE \E in \in inputs :
              IF in.wr = "ok"
              THEN LET writer == [id |-> world.opened + 1,
                                  file |-> filename("video", in.t),
                                  fps |-> fps_of(in.fpsq),
                                  size |-> <<frame_width, frame_height>>,
                                  frames |-> 0,
                                  cam |-> unwrap(camera),
                                  src |-> {}] IN
                   /\ locals' = [locals EXCEPT !.writer = Some(writer)]
                   /\ world' = [world EXCEPT !.opened = @ + 1,
                                             !.created = @ \cup {writer.file}]
                   /\ Goto("start", "lock_writer")
                   /\ UNCHANGED lock
              ELSE /\ Release("camera") /\ Goto("start", "idle")
                   /\ UNCHANGED <<locals, world>>
    /\ UNCHANGED <<ConcFrame, video_writer, is_recording, current_frame>>

\* start_recording at any time, with any frame rate reported
S_Open == S_OpenOf(recordings(Self))

\* start_recording: self.video_writer.lock()
S_LockWriter ==
    /\ pc["start"] = "lock_writer"
    /\ Acquire("video_writer", "start")
    /\ Goto("start", "set_writer")
    /\ UNCHANGED <<ConcFrame, video_writer, is_recording, current_frame,
                   world, locals>>

\* start_recording: *writer_lock = Some(writer), which drops a writer
\* stored before
S_SetWriter ==
    /\ pc["start"] = "set_writer"
    /\ video_writer' = locals.writer
    /\ world' = [world EXCEPT !.closed =
                    IF video_writer # None
                    THEN Append(@, unwrap(video_writer).id) ELSE @]
    /\ locals' = [locals EXCEPT !.writer = None]
    /\ Goto("start", "set_flag")
    /\ UNCHANGED <<ConcFrame, is_recording, current_frame, lock>>

\* start_recording: self.is_recording.store(true, Ordering::Relaxed)
S_SetFlag ==
    /\ pc["start"] = "set_flag"
    /\ is_recording' = TRUE
    /\ Goto("start", "release")
    /\ UNCHANGED <<ConcFrame, video_writer, current_frame, world, lock,
                   locals>>

\* start_recording: the end of the scopes of writer_lock and cam_lock
S_Release ==
    /\ pc["start"] = "release"
    /\ lock' = [lock EXCEPT !["video_writer"] = "free", !["camera"] = "free"]
    /\ Goto("start", "idle")
    /\ UNCHANGED <<ConcFrame, video_writer, is_recording, current_frame,
                   world, locals>>

\* stop_recording: self.video_writer.lock()
P_LockWriter ==
    /\ pc["stop"] = "idle"
    /\ Acquire("video_writer", "stop")
    /\ Goto("stop", "take")
    /\ UNCHANGED <<ConcFrame, video_writer, is_recording, current_frame,
                   world, locals>>

\* stop_recording: writer_lock.take() and drop(writer)
P_Take ==
    /\ pc["stop"] = "take"
    /\ IF video_writer # None
       THEN /\ video_writer' = None
            /\ world' = [world EXCEPT !.closed =
                            Append(@, unwrap(video_writer).id)]
            /\ Goto("stop", "clear_flag")
            /\ UNCHANGED lock
       ELSE /\ Release("video_writer") /\ Goto("stop", "idle")
            /\ UNCHANGED <<video_writer, world>>
    /\ UNCHANGED <<ConcFrame, is_recording, current_frame, locals>>

\* stop_recording: self.is_recording.store(false, Ordering::Relaxed)
P_ClearFlag ==
    /\ pc["stop"] = "clear_flag"
    /\ is_recording' = FALSE
    /\ Goto("stop", "release")
    /\ UNCHANGED <<ConcFrame, video_writer, current_frame, world, lock,
                   locals>>

\* stop_recording: the end of the scope of writer_lock
P_Release ==
    /\ pc["stop"] = "release"
    /\ Release("video_writer")
    /\ Goto("stop", "idle")
    /\ UNCHANGED <<ConcFrame, video_writer, is_recording, current_frame,
                   world, locals>>

NextConc ==
    \/ T_LockCamera \/ T_Read \/ T_Load \/ T_LockWriter \/ T_Write
    \/ T_Convert \/ T_LockFrame \/ T_Store
    \/ S_LockCamera \/ S_Open \/ S_LockWriter \/ S_SetWriter \/ S_SetFlag
    \/ S_Release
    \/ P_LockWriter \/ P_Take \/ P_ClearFlag \/ P_Release

SpecConc == Init /\ [][NextConc]_vars

-----------------------------------------------------------------------------
(* All five methods on threads of their own: update_frame, start_recording *)
(* and stop_recording as above, and with them switch_camera (thread        *)
(* "switch") and capture_photo (thread "photo").  What plays no part in    *)
(* the locking is held fixed: one picture, one time of day, no frame rate  *)
(* reported, and devices that leave the requested resolution as it is.     *)

thread_ticks == {i \in ticks : i.rd.mat.id <= 1}
thread_recordings(s) == {in \in recordings(s) : in.t = 0 /\ in.fpsq = Fail}
thread_photos == {in \in photos : in.t = 0}
thread_devices == {d \in Devices : d.width = Fail /\ d.height = Fail}

\* update_frame and start_recording with these inputs
T_ReadOne == T_ReadOf(thread_ticks)
S_OpenOne == S_OpenOf(thread_recordings(Self))

\* what the threads "switch" and "photo" leave alone
SwitchFrame == <<capture_mode, camera_position, last_op, dropped,
                 current_frame, locals>>

\* switch_camera: self.is_recording.load(Ordering::Relaxed)
SW_Load ==
    /\ pc["switch"] = "idle"
    /\ Goto("switch", IF is_recording THEN "stop_lock" ELSE "lock_camera")
    /\ UNCHANGED <<SwitchFrame, camera, camera_index, frame_width,
                   frame_height, video_writer, is_recording, world, lock>>

\* switch_camera, in stop_recording: self.video_writer.lock()
SW_StopLock ==
    /\ pc["switch"] = "stop_lock"
    /\ Acquire("video_writer", "switch")
    /\ Goto("switch", "stop_take")
    /\ UNCHANGED <<SwitchFrame, camera, camera_index, frame_width,
                   frame_height, video_writer, is_recording, world>>

\* switch_camera, in stop_recording: writer_lock.take() and drop(writer)
SW_StopTake ==
    /\ pc["switch"] = "stop_take"
    /\ IF video_writer # None
       THEN /\ video_writer' = None
            /\ world' = [world EXCEPT !.closed =
                            Append(@, unwrap(video_writer).id)]
            /\ Goto("switch", "stop_clear")
            /\ UNCHANGED lock
       ELSE /\ Release("video_writer") /\ Goto("switch", "lock_camera")
            /\ UNCHANGED <<video_writer, world>>
    /\ UNCHANGED <<SwitchFrame, camera, camera_index, frame_width,
                   frame_height, is_recording>>

\* switch_camera, in stop_recording: self.is_recording.store(false, ..)
SW_StopClear ==
    /\ pc["switch"] = "stop_clear"
    /\ is_recording' = FALSE
    /\ Goto("switch", "stop_release")
    /\ UNCHANGED <<SwitchFrame, camera, camera_index, frame_width,
                   frame_height, video_writer, world, lock>>

\* switch_camera, in stop_recording: the end of the scope of writer_lock
SW_StopRelease ==
    /\ pc["switch"] = "stop_release"
    /\ Release("video_writer")
    /\ Goto("switch", "lock_camera")
    /\ UNCHANGED <<SwitchFrame, camera, camera_index, frame_width,
                   frame_height, video_writer, is_recording, world>>

\* switch_camera: self.camera.lock()
SW_LockCamera ==
    /\ pc["switch"] = "lock_camera"
    /\ Acquire("camera", "switch")
    /\ Goto("switch", "release")
    /\ UNCHANGED <<SwitchFrame, camera, camera_index, frame_width,
                   frame_height, video_writer, is_recording, world>>

\* a switch_camera that keeps the guard of the camera Mutex
SW_Release_keeps_guard ==
    /\ pc["switch"] = "release"
    /\ camera' = None
    /\ Goto("switch", "open")
    /\ UNCHANGED <<SwitchFrame, camera_index, frame_width, frame_height,
                   video_writer, is_recording, world, lock>>

\* switch_camera: *cam_lock = None and the end of the scope of cam_lock
SW_Release ==
    /\ pc["switch"] = "release"
    /\ camera' = None
    /\ Release("camera")
    /\ Goto("switch", "open")
    /\ UNCHANGED <<SwitchFrame, camera_index, frame_width, frame_height,
                   video_writer, is_recording, world>>

\* switch_camera: the other camera_index, and init_camera up to the store
\* of the handle: VideoCapture::new, is_opened, cam.set and cam.get
SW_Open ==
    /\ pc["switch"] = "open"
    /\ camera_index' = IF camera_index = 0 THEN 1 ELSE 0
    /\ \E dev \in thread_devices :
         /\ world' = [world EXCEPT !.last_open = dev.open]
         /\ frame_width' = IF dev.open = "ok" /\ dev.width # Fail
                           THEN dev.width ELSE frame_width
         /\ frame_height' = IF dev.open = "ok" /\ dev.height # Fail
                            THEN dev.height ELSE frame_height
         /\ Goto("switch", IF dev.open = "ok" THEN "lock_store" ELSE "idle")
    /\ UNCHANGED <<SwitchFrame, camera, video_writer, is_recording, lock>>

\* init_camera: self.camera.lock()
SW_LockStore ==
    /\ pc["switch"] = "lock_store"
    /\ Acquire("camera", "switch")
    /\ Goto("switch", "store")
    /\ UNCHANGED <<SwitchFrame, camera, camera_index, frame_width,
                   frame_height, video_writer, is_recording, world>>

\* init_camera: *guard = Some(cam) and the end of the statement
SW_Store ==
    /\ pc["switch"] = "store"
    /\ camera' = Some([index |-> camera_index])
    /\ Release("camera")
    /\ Goto("switch", "idle")
    /\ UNCHANGED <<SwitchFrame, camera_index, frame_width, frame_height,
                   video_writer, is_recording, world>>

\* capture_photo: self.camera.lock()
CP_LockCamera ==
    /\ pc["photo"] = "idle"
    /\ Acquire("camera", "photo")
    /\ Goto("photo", "read")
    /\ UNCHANGED <<SwitchFrame, camera, camera_index, frame_width,
                   frame_height, video_writer, is_recording, world>>

\* capture_photo: cam_lock.as_mut(), cam.read, imwrite and the end of the
\* scope of cam_lock
CP_Read ==
    /\ pc["photo"] = "read"
    /\ \E in \in thread_photos :
         world' = [world EXCEPT !.created =
                      capture_photo(Self, in.rd, in.t, in.enc).world.created]
    /\ Release("camera")
    /\ Goto("photo", "idle")
    /\ UNCHANGED <<SwitchFrame, camera, camera_index, frame_width,
                   frame_height, video_writer, is_recording>>

NextThreads ==
    \/ T_LockCamera \/ T_ReadOne \/ T_Load \/ T_LockWriter \/ T_Write
    \/ T_Convert \/ T_LockFrame \/ T_Store
    \/ S_LockCamera \/ S_OpenOne \/ S_LockWriter \/ S_SetWriter \/ S_SetFlag
    \/ S_Release
    \/ P_LockWriter \/ P_Take \/ P_ClearFlag \/ P_Release
    \/ SW_Load \/ SW_StopLock \/ SW_StopTake \/ SW_StopClear
    \/ SW_StopRelease \/ SW_LockCamera \/ SW_Release \/ SW_Open
    \/ SW_LockStore \/ SW_Store
    \/ CP_LockCamera \/ CP_Read

\* CameraApp::new with one of these devices
InitThreads ==
    /\ \E dev \in thread_devices : InitFrom(new(dev))
    /\ last_op = Op("new", "init_camera", "none")
    /\ dropped = FALSE
    /\ Sequential

SpecThreads == InitThreads /\ [][NextThreads]_vars

\* A thread inside a method runs on: a step that needs no Mutex is taken
\* (WF), and a thread waiting in Mutex::lock gets the Mutex if it is
\* released again and again (SF), thread by thread.  No method has to be
\* called at all.
Running ==
    /\ WF_vars(T_ReadOne \/ T_Load \/ T_Write \/ T_Convert \/ T_Store)
    /\ WF_vars(S_OpenOne \/ S_SetWriter \/ S_SetFlag \/ S_Release)
    /\ WF_vars(P_Take \/ P_ClearFlag \/ P_Release)
    /\ WF_vars(SW_StopTake \/ SW_StopClear \/ SW_StopRelease \/ SW_Release
                  \/ SW_Open \/ SW_Store)
    /\ WF_vars(CP_Read)
    /\ SF_vars(T_LockWriter \/ T_LockFrame)
    /\ SF_vars(S_LockWriter)
    /\ SF_vars(SW_StopLock \/ SW_LockCamera \/ SW_LockStore)

SpecThreadsFair == SpecThreads /\ Running

-----------------------------------------------------------------------------
(* Properties. *)

\* what the last handler printed
Printed == {world.log[k] : k \in 1..Len(world.log)}

\* C1: between operations, the video writer handle is present if and only
\* if the recording flag is true, whatever the order of the operations and
\* however the device opens, reads and writer opens go.
C1_WriterIffRecording == (video_writer # None) <=> is_recording

\* a start_recording has just opened a writer and set the flag
C1_Witness ==
    /\ last_op.handler = "start_recording"
    /\ ~last_op.rec
    /\ video_writer # None
    /\ is_recording

\* C2: the mode is never Photo while the recording flag is true, and a
\* click on the Photo toggle during a recording stops the recording: after
\* it the mode is Photo, the flag is false, no writer is left and the stop
\* was announced.
C2_PhotoNeverRecording ==
    /\ capture_mode = "Photo" => ~is_recording
    /\ last_op.handler = "photo_mode" =>
          /\ capture_mode = "Photo"
          /\ ~is_recording
          /\ video_writer = None
          /\ last_op.rec => /\ last_op.called = "stop_recording"
                            /\ "recording stopped" \in Printed

\* the Photo toggle was clicked during a recording
C2_Witness ==
    /\ last_op.handler = "photo_mode"
    /\ last_op.rec
    /\ capture_mode = "Photo"

\* C3: right after switch_camera returns, the recording flag is false and
\* no writer handle is present, whether or not a recording was active
\* before and whether or not the new device opened.
C3_NoRecordingAfterSwitch ==
    last_op.called = "switch_camera" => ~is_recording /\ video_writer = None

\* switch_camera ran during a recording and the new device did not open
C3_Witness ==
    /\ last_op.called = "switch_camera"
    /\ last_op.rec
    /\ world.last_open # "ok"

\* C4 as stated: between operations the camera handle is present, also
\* when the device open failed.
C4_CameraAlwaysPresent == camera # None

\* C4 as amended: between operations the camera handle is present exactly
\* when the most recent device open (at startup or in the last
\* switch_camera) succeeded; after a failed open it stays absent.
C4_CameraIffLastOpenOk == (camera # None) <=> (world.last_open = "ok")

\* a switch_camera whose device did not open has returned
C4_Witness ==
    /\ last_op.called = "switch_camera"
    /\ world.last_open = "closed"
    /\ camera = None

\* C5: between operations, position and device index correspond one to
\* one: Rear with index 0, Front with index 1.
C5_PositionIndex ==
    /\ camera_position = "Rear" <=> camera_index = 0
    /\ camera_position = "Front" <=> camera_index = 1

\* the Front toggle switched to a device that did not open
C5_Witness ==
    /\ last_op.handler = "front"
    /\ last_op.called = "switch_camera"
    /\ world.last_open # "ok"
    /\ camera_position = "Front"
    /\ camera_index = 1

\* C6 as stated: start_recording called while recording is active changes
\* neither the writer handle nor the flag and opens no writer.
C6_StartIsNoOp ==
    [][(is_recording /\ last_op'.handler = "start_recording") =>
          /\ video_writer' = video_writer
          /\ is_recording' = is_recording
          /\ world'.opened = world.opened]_vars

\* C6 as amended: start_recording called while recording is active leaves
\* the flag true; when the new writer does not open it changes neither the
\* handle nor the files, and when the new writer opens it stores the new
\* writer in place of the previous one, which is dropped.
C6_StartReplacesWriter ==
    [][(is_recording /\ last_op'.handler = "start_recording") =>
          /\ is_recording'
          /\ video_writer' # None
          /\ IF world'.opened = world.opened
             THEN /\ video_writer' = video_writer
                  /\ world'.created = {}
                  /\ world'.closed = world.closed
             ELSE /\ world'.opened = world.opened + 1
                  /\ world'.created = {unwrap(video_writer').file}
                  /\ unwrap(video_writer').id = world'.opened
                  /\ unwrap(video_writer').frames = 0
                  /\ world'.closed =
                        Append(world.closed, unwrap(video_writer).id)]_vars

\* a start_recording called during a recording has opened a second writer
C6_Witness ==
    /\ last_op.handler = "start_recording"
    /\ last_op.rec
    /\ video_writer # None
    /\ unwrap(video_writer).id = 2
    /\ world.closed = <<1>>

\* C7 as stated: no tick observes the flag and the writer handle in
\* disagreement: the tick that looks into the writer Mutex, having loaded
\* the flag, finds the handle present if and only if it loaded true.
C7_TickSeesFlagWithHandle ==
    pc["tick"] = "write" => (locals.flag <=> video_writer # None)

\* C7 as amended: start_recording sets the handle and the flag atomically
\* with respect to tick: it sets both while it holds the camera Mutex, which
\* tick holds for the whole of update_frame, so it is not inside its
\* critical section while a tick is; and whenever the writer Mutex is free
\* or held by tick, the handle is present if and only if the flag is true.
C7_StartAtomicForTick ==
    /\ lock["camera"] = "tick" => pc["start"] = "idle"
    /\ lock["video_writer"] \in {"free", "tick"} =>
          ((video_writer # None) <=> is_recording)

\* a tick, after a start_recording, holds the writer Mutex and finds the
\* handle, the flag being true
C7_Witness ==
    /\ pc["tick"] = "write"
    /\ world.opened > 0
    /\ video_writer # None
    /\ is_recording

\* C8: capture_photo called when no camera handle is present reports an
\* error to the operator.
C8_NoCameraReported ==
    (last_op.called = "capture_photo" /\ camera = None) =>
        Printed \cap StderrMsgs # {}

\* C9: a tick that produces no frame leaves the stored current frame as it
\* was.
C9_FailedTickKeepsFrame ==
    [][last_op'.tick = "no_frame" => current_frame' = current_frame]_vars

\* a tick that produced no frame although a camera is open, with a frame
\* stored before
C9_Witness ==
    /\ last_op.handler = "update"
    /\ last_op.tick = "no_frame"
    /\ camera # None
    /\ current_frame # None

\* the resolution init_camera is expected to store: what the device
\* reports, or what was requested where the device reports nothing
Effective(x) ==
    <<IF x.width # Fail THEN x.width ELSE x.requested[1],
      IF x.height # Fail THEN x.height ELSE x.requested[2]>>

\* C10: init stores the resolution the device reports as the effective
\* resolution; a writer is opened at the effective resolution; and the
\* resolution requested of a device is the effective resolution stored
\* before.
C10_EffectiveResolution ==
    /\ [](world.init # None =>
            <<frame_width, frame_height>> = Effective(unwrap(world.init)))
    /\ [](video_writer # None =>
            unwrap(video_writer).size = <<frame_width, frame_height>>)
    /\ [][world'.init # None =>
            unwrap(world'.init).requested = <<frame_width, frame_height>>]_vars

\* a switch_camera has requested 320x200, not 640x480, of the new device
C10_Witness ==
    /\ last_op.called = "switch_camera"
    /\ world.init # None
    /\ unwrap(world.init).requested = <<320, 200>>

\* C11: the frame rate the writer is opened at is the rate the device
\* reports when that lies in (0, 120], and 30 when the device reports a
\* rate of 0 or less or above 120 or the query fails.
C11_FrameRate ==
    (world.fps # None /\ world.created # {}) =>
        LET q == unwrap(world.fps) IN
        /\ video_writer # None
        /\ unwrap(video_writer).fps = IF q \in 1..120 THEN q ELSE 30

\* a writer opened at 30 although the device reported 200
C11_Witness ==
    /\ last_op.called = "start_recording"
    /\ world.fps = Some(200)
    /\ video_writer # None
    /\ unwrap(video_writer).fps = 30

\* C12: while the camera handle is absent because a device open failed,
\* the preview shows the placeholder and not an image.  (The handler that
\* calls switch_camera draws its preview before the switch, so it is left
\* out.)
C12_PlaceholderWithoutCamera ==
    (camera = None /\ world.shown # "none"
        /\ last_op.called # "switch_camera") =>
            world.shown = "placeholder"

\* the writer a handle stands for: 0 for no handle
WriterId(w) == IF w = None THEN 0 ELSE unwrap(w).id

\* the step is an operation that failed: a switch_camera whose device did
\* not open, an update_frame that produced no frame, a capture_photo that
\* saved no photo, a start_recording that opened no writer
C13_Failed ==
    \/ last_op'.called = "switch_camera" /\ world'.last_open # "ok"
    \/ last_op'.handler = "update_frame" /\ last_op'.tick = "no_frame"
    \/ last_op'.handler = "capture_photo" /\ world'.created = {}
    \/ last_op'.handler = "start_recording" /\ world'.created = {}

\* the step leaves camera handle, device index, position, mode, writer
\* handle, recording flag and current frame as they were
C13_SessionUnchanged ==
    /\ camera' = camera
    /\ camera_index' = camera_index
    /\ camera_position' = camera_position
    /\ capture_mode' = capture_mode
    /\ WriterId(video_writer') = WriterId(video_writer)
    /\ is_recording' = is_recording
    /\ current_frame' = current_frame

\* C13 as stated: every failing operation leaves camera handle, device
\* index, position, mode, writer handle, recording flag and current frame
\* as they were.
C13_FailureChangesNothing == [][C13_Failed => C13_SessionUnchanged]_vars

\* C13 as amended: a failed device open at startup leaves the session as
\* built by Default, without camera handle; a failed frame read, empty
\* frame, photo encode or writer open leaves the listed fields as they
\* were; a switch_camera whose device does not open leaves mode and
\* current frame as they were, but the session is at the new position and
\* index, without camera handle and with the recording stopped.
C13_FailureEffects ==
    /\ []((last_op.handler = "new" /\ world.last_open # "ok") =>
            /\ camera = None /\ camera_index = 0
            /\ camera_position = "Rear" /\ capture_mode = "Photo"
            /\ video_writer = None /\ ~is_recording
            /\ current_frame = None)
    /\ [][C13_Failed =>
            IF last_op'.called = "switch_camera"
            THEN /\ camera' = None
                 /\ camera_index' = 1 - camera_index
                 /\ camera_position' # camera_position
                 /\ capture_mode' = capture_mode
                 /\ video_writer' = None
                 /\ ~is_recording'
                 /\ current_frame' = current_frame
            ELSE C13_SessionUnchanged]_vars

\* a switch_camera during a recording, with a frame stored, whose device
\* did not open
C13_Witness ==
    /\ last_op.called = "switch_camera"
    /\ world.last_open # "ok"
    /\ last_op.rec
    /\ current_frame # None
    /\ camera = None

\* C14: a start_recording that fails (no camera handle, VideoWriter::new
\* returning an error, or a writer that is not opened), called while the
\* flag is false, leaves the flag false and no writer stored, and has
\* opened no writer and created no file.
C14_FailedStartLeavesRecordingOff ==
    [][(last_op'.handler = "start_recording" /\ ~is_recording
            /\ "recording started" \notin Printed') =>
        /\ ~is_recording'
        /\ video_writer' = None
        /\ world'.opened = world.opened
        /\ world'.created = {}]_vars

\* a start_recording with a camera handle whose writer did not open
C14_Witness ==
    /\ last_op.handler = "start_recording"
    /\ ~last_op.rec
    /\ camera # None
    /\ "writer not opened" \in Printed
    /\ ~is_recording
    /\ video_writer = None

\* the writers closed so far
ClosedIds == {world.closed[k] : k \in 1..Len(world.closed)}

\* the writers opened and not closed
OpenIds == (1..world.opened) \ ClosedIds

\* C15: no writer is closed twice and only writers that were opened are
\* closed; at most one writer is open at a time, and it is the one stored
\* in video_writer, the only one update_frame writes to, so that no closed
\* writer gets a frame; once the application is torn down every writer
\* that was opened has been closed.
C15_WriterClosedOnce ==
    /\ Cardinality(ClosedIds) = Len(world.closed)
    /\ ClosedIds \subseteq 1..world.opened
    /\ Cardinality(OpenIds) <= 1
    /\ OpenIds = IF video_writer = None THEN {} ELSE {WriterId(video_writer)}
    /\ dropped => OpenIds = {}

\* torn down during the second recording: the first writer was closed
\* before, the second by the teardown
C15_Witness ==
    /\ dropped
    /\ last_op.called = "stop_recording"
    /\ world.closed = <<1, 2>>

\* the handler that ran last called init_camera: it prints one line
\* whichever way the open goes
OpenAttempted ==
    Printed \cap {"camera initialised", "camera not opened",
                  "camera init failed"} # {}

\* C16 as stated: while there is no camera handle, a pass of the window
\* attempts an open exactly when the user clicked a position toggle that
\* switches the camera or the photo/record button.
C16_RetryByToggleOrButton ==
    [][camera = None =>
        (OpenAttempted' <=> (\/ last_op'.called = "switch_camera"
                             \/ last_op'.handler = "action"))]_vars

\* C16 as amended: while there is no camera handle, a pass of the window
\* attempts an open exactly when the user clicked the toggle of the
\* position that is not the current one; every other pass, whatever the
\* number of ticks and of clicks on the photo/record button, leaves the
\* camera handle absent.
C16_RetryByToggleOnly ==
    [][camera = None =>
        /\ OpenAttempted' <=> last_op'.called = "switch_camera"
        /\ last_op'.called # "switch_camera" => camera' = None]_vars

\* a click on the photo/record button without camera handle: nothing is
\* printed and no handle appears
C16_Witness ==
    /\ last_op.handler = "action"
    /\ camera = None
    /\ world.last_open # "ok"
    /\ ~OpenAttempted

\* C17: a click on the toggle of the current position changes nothing:
\* camera handle, device index, position, writer handle and recording
\* flag are as before, no device is opened, nothing is printed and no
\* writer is closed.
C17_SamePositionNoOp ==
    [][((last_op'.handler = "rear" /\ camera_position = "Rear")
            \/ (last_op'.handler = "front" /\ camera_position = "Front")) =>
        /\ camera' = camera
        /\ camera_index' = camera_index
        /\ camera_position' = camera_position
        /\ video_writer' = video_writer
        /\ is_recording' = is_recording
        /\ ~OpenAttempted'
        /\ world'.closed = world.closed]_vars

\* a click on "Front" during a recording on the front camera
C17_Witness ==
    /\ last_op.handler = "front"
    /\ last_op.called = "none"
    /\ camera_position = "Front"
    /\ camera # None
    /\ is_recording
    /\ video_writer # None

\* C18: a writer lives with one camera handle.  While a writer is stored
\* the camera handle is the one that was open when the writer was created
\* (cam), and every frame the writer got was read from that handle (src);
\* a step that leaves the same writer stored has not switched the camera
\* and has left the camera handle as it was.
C18_RecordingOnOneCamera ==
    /\ [](video_writer # None =>
            /\ camera = Some(unwrap(video_writer).cam)
            /\ unwrap(video_writer).src \subseteq {unwrap(video_writer).cam})
    /\ [][(video_writer # None /\ video_writer' # None
              /\ WriterId(video_writer') = WriterId(video_writer)) =>
            /\ last_op'.called # "switch_camera"
            /\ camera' = camera]_vars

\* the position was switched during a recording that had a frame written,
\* the new device opened, and a new recording was started on it
C18_Witness ==
    /\ world.closed = <<1>>
    /\ video_writer # None
    /\ unwrap(video_writer).id = 2
    /\ unwrap(video_writer).cam.index = 1
    /\ unwrap(video_writer).src = {[index |-> 1]}

\* the Mutexes a thread holds
Holds(t) == {l \in DOMAIN lock : lock[l] = t}

\* the Mutex a thread is about to lock, "none" when its next step locks
\* none
Wants(t) ==
    CASE t = "tick" /\ pc[t] = "idle" -> "camera"
      [] t = "tick" /\ pc[t] = "lock_writer" -> "video_writer"
      [] t = "tick" /\ pc[t] = "lock_frame" -> "current_frame"
      [] t = "start" /\ pc[t] = "idle" -> "camera"
      [] t = "start" /\ pc[t] = "lock_writer" -> "video_writer"
      [] t = "stop" /\ pc[t] = "idle" -> "video_writer"
      [] t = "switch" /\ pc[t] = "stop_lock" -> "video_writer"
      [] t = "switch" /\ pc[t] \in {"lock_camera", "lock_store"} -> "camera"
      [] t = "photo" /\ pc[t] = "idle" -> "camera"
      [] OTHER -> "none"

\* the place of a Mutex in the order camera, video_writer, current_frame
Rank(l) ==
    CASE l = "camera" -> 1 [] l = "video_writer" -> 2
      [] l = "current_frame" -> 3

\* the thread can take its next step, or waits for a Mutex whose holder
\* can, or whose holder waits for one whose holder can, up to n times
RECURSIVE CanRun(_, _)
CanRun(t, n) ==
    \/ Wants(t) = "none"
    \/ lock[Wants(t)] = "free"
    \/ /\ n > 0
       /\ lock[Wants(t)] # t
       /\ CanRun(lock[Wants(t)], n - 1)

====
